---- MODULE Spec2Model ----
(***************************************************************************)
(* Crawl orchestration of the two scrapers of this repository.             *)
(*                                                                         *)
(* RepackGames/RepackGames.py: RepackGamesParser, an asyncio program.  One *)
(* asyncio task step (the code between two suspension points) is one       *)
(* action.  A fetch call is named by its call site <<c, p, k>>: k = 0 is   *)
(* the fetch of listing page p of category c, k >= 1 is the fetch made by  *)
(* parse_game_info for the k-th game link of that listing page.            *)
(***************************************************************************)
EXTENDS Integers, Sequences, FiniteSets, TLC

\* ------------------------------------------------------------- bounds
\* Number of entries of self.categories (22 in the source).
NumCats == 2
\* max_concurrent ranges over 1..MaxCeiling (160 in main()).
MaxCeiling == 2
\* Largest "Page X of N" marker a category's first page carries.
MaxMarker == 2
\* Game links per listing page and distinct game pages of the site.
MaxLinks == 2
NumLeaves == 3
\* Number of defects (dead URL, flaky URL, broken markup ...) of one site.
MaxDefects == 1
\* max_pages when the first page has no marker (line 397 uses 999).
FallbackMaxPages == 6

\* AnkerGames: game links of the games list.
AnkNumUrls == 3

\* extract_download_links: download buttons of one game page and the
\* different hrefs they carry.
MaxButtons == 3
NumHrefs == 3

\* ------------------------------------------------- program constants
\* range(3) of get_page_content
MaxAttempts == 3

Cats == 1..NumCats
Leaves == 1..NumLeaves

VARIABLES
  site,               \* the web site and the transport: the program's input
  max_concurrent,     \* self.max_concurrent
  semaphore,          \* self.semaphore._value: free slots
  fstate,             \* per call of get_page_content: idle, wait (for a slot), hold
                      \* (a slot, attempts running), html or none (returned)
  flog,               \* per call: outcomes of its transport attempts so far
  settled,            \* page tasks and parse_game_info tasks that returned
  result,             \* per settled task: the list of records it returned
  cpc,                \* per category crawler: its position
  max_pages,          \* local max_pages of parse_category_with_pagination
  completed_pages,    \* local completed_pages
  all_games,          \* local all_games
  doneq,              \* per category: finished page tasks as_completed has not yielded yet
  rpc,                \* position of run()
  games_data,         \* self.games_data
  total_games_parsed, \* self.total_games_parsed
  files,              \* JSON files written by save_to_json
  ank,                \* AnkerGames/ankergames.py: the locals of main() and its input
  acquisitions,       \* history: how often "async with self.semaphore" was entered
  ext                 \* one call of extract_download_links: its soup and its result

vars == <<ext, acquisitions, ank, site, max_concurrent, semaphore, fstate, flog, settled, result, cpc,
          max_pages, completed_pages, all_games, doneq, rpc, games_data,
          total_games_parsed, files>>

\* ------------------------------------------------------------ the site
\* The listing pages a crawl of the site can ask for: up to the largest page
\* marker, or up to the fallback when some category carries no marker.
SitePages(s) ==
  IF \A c \in Cats : s.marked[c] THEN 1..MaxMarker ELSE 1..FallbackMaxPages
Pages == SitePages(site)

\* The call sites of get_page_content on this site.
SiteCalls(s) == Cats \X SitePages(s) \X (0..MaxLinks)
Calls == DOMAIN fstate

ListUrl(c, p) == <<"list", c, p>>
LeafUrl(u) == <<"leaf", u>>

\* The game links a healthy listing page (c, p) carries.  On a "shared" site
\* these are MaxLinks consecutive game pages, so that pages of one category
\* and of two categories overlap; on a "distinct" site no game page is linked
\* twice.
Layout(c, p) ==
  IF site.layout = "distinct"
  THEN [k \in 1..MaxLinks |-> ((c - 1) * MaxMarker + (p - 1)) * MaxLinks + k]
  ELSE [k \in 1..MaxLinks |-> ((c + p + k - 3) % NumLeaves) + 1]

HasDefect(url, kind) == [url |-> url, kind |-> kind] \in site.defects

\* One transport attempt for url: the outcomes session.get can have.
Outcomes(url) ==
  IF HasDefect(url, "down") THEN {"err"}
  ELSE IF HasDefect(url, "flaky") THEN {"ok", "err"}
  ELSE {"ok"}

\* Content of listing page p of category c.
IsDeadContent(c, p) == p > site.live[c] \/ HasDefect(ListUrl(c, p), "dead")
LinksOnPage(c, p) ==
  IF IsDeadContent(c, p) \/ HasDefect(ListUrl(c, p), "empty") THEN <<>>
  ELSE Layout(c, p)

\* Download buttons of game page u, in page order: a TORRENT button followed
\* by a direct link; a "nolinks" page has the TORRENT button only.
ButtonsOf(u) ==
  IF HasDefect(LeafUrl(u), "nolinks")
  THEN << [cls |-> "gp", torrent |-> TRUE, href |-> <<u, 0>>] >>
  ELSE << [cls |-> "gp", torrent |-> TRUE, href |-> <<u, 0>>],
          [cls |-> "gp", torrent |-> FALSE, href |-> <<u, 1>>] >>

UrlOf(call) ==
  IF call[3] = 0 THEN ListUrl(call[1], call[2])
  ELSE LeafUrl(LinksOnPage(call[1], call[2])[call[3]])

RECURSIVE SetsUpTo(_, _)
SetsUpTo(D, n) ==
  IF n = 0 THEN {{}}
  ELSE LET prev == SetsUpTo(D, n - 1)
       IN prev \cup {s \cup {d} : s \in prev, d \in D}

AllDefects ==
  LET lurls == {ListUrl(c, p) : c \in Cats, p \in 1..MaxMarker}
      gurls == {LeafUrl(u) : u \in Leaves}
  IN  {[url |-> x, kind |-> k] : x \in lurls \cup gurls, k \in {"down", "flaky"}}
      \cup {[url |-> ListUrl(c, 1), kind |-> "poison"] : c \in Cats}
      \cup {[url |-> ListUrl(c, p), kind |-> "dead"] : c \in Cats, p \in 2..MaxMarker}
      \cup {[url |-> x, kind |-> "empty"] : x \in lurls}
      \cup {[url |-> x, kind |-> "nolinks"] : x \in gurls}

\* The transport fails on every attempt for every URL.
AllDown == {d \in AllDefects : d.kind = "down"}

\* Sites of the main specification: every category carries a page marker;
\* the site has up to MaxDefects defects, or no URL of it can be fetched.
Sites ==
  [marked : {[c \in Cats |-> TRUE]},
   live : [Cats -> 1..MaxMarker],
   layout : {"shared"},
   defects : SetsUpTo(AllDefects, MaxDefects) \cup {AllDown}]


\* ------------------------------------------------------ pure functions
InSeq(x, s) == \E i \in 1..Len(s) : s[i] = x

\* extract_download_links: the loop over download_buttons, with the locals
\* is_torrent_section and download_links.  A button is a record: its class,
\* whether its context text contains TORRENT, and its href (<<>>: no href).
RECURSIVE ExtractLoop(_, _, _, _)
ExtractLoop(bs, i, is_torrent_section, download_links) ==
  IF i > Len(bs) THEN download_links
  ELSE IF bs[i].torrent /\ ~is_torrent_section
       THEN ExtractLoop(bs, i + 1, TRUE, download_links)
       ELSE ExtractLoop(bs, i + 1, FALSE,
              IF bs[i].href # <<>> /\ ~InSeq(bs[i].href, download_links)
              THEN Append(download_links, bs[i].href)
              ELSE download_links)

IsGp(b) == b.cls = "gp"
IsEnjoy(b) == b.cls = "enjoy"

extract_download_links(buttons) ==
  LET download_buttons == SelectSeq(buttons, IsGp) \o SelectSeq(buttons, IsEnjoy)
  IN  ExtractLoop(download_buttons, 1, FALSE, <<>>)

\* is_404_page, for the fetch result ret of listing page (c, p).
is_404_page(ret, c, p) == ret = "none" \/ IsDeadContent(c, p)

\* get_total_pages_from_pagination on the first page of c: 0 stands for None.
get_total_pages_from_pagination(c) == IF site.marked[c] THEN site.live[c] ELSE 0

\* max_pages of parse_category_with_pagination.
MaxPagesOf(total_pages) == IF total_pages # 0 THEN total_pages ELSE FallbackMaxPages

\* The value parse_game_info returns for game page u once its fetch returned
\* ret: <<>> stands for None, <<record>> for the dict.
GameInfo(ret, u) ==
  IF ret # "html" THEN <<>>
  ELSE LET download_links == extract_download_links(ButtonsOf(u))
       IN  IF download_links = <<>> THEN <<>>
           ELSE << [uris |-> download_links, repackLinkSource |-> u] >>

\* ---------------------------------------------- semaphore and fetcher
\* Mutant of InitialSlots: the semaphore is sized one above the ceiling.
InitialSlotsOffByOne(m) == m + 1
\* asyncio.Semaphore(max_concurrent)
InitialSlots(m) == m
\* acquire proceeds only while the counter is positive
CanAcquire(v) == v > 0
SemAcquire(v) == v - 1
\* Mutant of SemRelease: the slot is not given back when the retries are
\* exhausted.
SemReleaseOnSuccessOnly(v, ret) == IF ret = "html" THEN v + 1 ELSE v
\* __aexit__ of "async with self.semaphore", on the exit by return ret
SemRelease(v, ret) == v + 1

\* Mutant of SemBackoff: the slot is given back for the 150 ms backoff.
SemReleasedOnBackoff(v) == v + 1
\* The "continue" of the except-branch stays inside "async with
\* self.semaphore": the counter is left alone between two attempts.
SemBackoff(v) == v

\* Mutant of WillRetry: one retry too many.
WillRetryOnceMore(attempt, out) == out = "err" /\ attempt < MaxAttempts
\* except-branch of get_page_content: the attempt with index attempt ended
\* with outcome out; TRUE when the loop sleeps 150 ms and goes on.
WillRetry(attempt, out) == out = "err" /\ attempt < MaxAttempts - 1

\* What get_page_content returns after a last attempt with outcome out.
ReturnOf(out) == IF out = "ok" THEN "html" ELSE "none"

Holding == {x \in Calls : fstate[x] = "hold"}
Waiting == {x \in Calls : fstate[x] = "wait"}

\* "async with self.semaphore" admits a call.  asyncio wakes waiters in FIFO
\* order; the model admits any waiting call, which covers every order.
Admit(call) ==
  /\ rpc = "gather"
  /\ fstate[call] = "wait"
  /\ CanAcquire(semaphore)
  /\ semaphore' = SemAcquire(semaphore)
  /\ fstate' = [fstate EXCEPT ![call] = "hold"]
  /\ acquisitions' = acquisitions + 1
  /\ UNCHANGED <<ext, ank, site, max_concurrent, flog, settled, result, cpc, max_pages,
                 completed_pages, all_games, doneq, rpc, games_data,
                 total_games_parsed, files>>

\* One failed attempt that is followed by another one (lines 58-61).
Retry(call) ==
  /\ rpc = "gather"
  /\ fstate[call] = "hold"
  /\ "err" \in Outcomes(UrlOf(call))
  /\ WillRetry(Len(flog[call]), "err")
  /\ flog' = [flog EXCEPT ![call] = Append(@, "err")]
  /\ semaphore' = SemBackoff(semaphore)
  /\ UNCHANGED <<ext, acquisitions, ank, site, max_concurrent, fstate, settled, result, cpc,
                 max_pages, completed_pages, all_games, doneq, rpc, games_data,
                 total_games_parsed, files>>

\* The last attempt of a call: outcome out, the slot is released and the call
\* returns.  The caller's continuation is part of the same task step.
LastAttempt(call, out) ==
  /\ rpc = "gather"
  /\ fstate[call] = "hold"
  /\ out \in Outcomes(UrlOf(call))
  /\ ~WillRetry(Len(flog[call]), out)
  /\ flog' = [flog EXCEPT ![call] = Append(@, out)]
  /\ semaphore' = SemRelease(semaphore, ReturnOf(out))

StartCalls(fs, cs) == [x \in Calls |-> IF x \in cs THEN "wait" ELSE fs[x]]
\* Mutant of LeafCallsOf: only the first listing page fans out game tasks.
LeafCallsOfFirstPageOnly(c, p) ==
  IF p = 1 THEN {<<c, p, k>> : k \in 1..Len(LinksOnPage(c, p))} ELSE {}
\* tasks = [self.parse_game_info(...) for game_url in game_links]
LeafCallsOf(c, p) == {<<c, p, k>> : k \in 1..Len(LinksOnPage(c, p))}
PageCallsOf(c, n) == {<<c, p, 0>> : p \in 2..n}


\* ------------------------------------------------------ category crawler
\* asyncio.gather(*tasks) over the parse_game_info tasks of page (c, p):
\* their results in list order; valid_games keeps the dicts.
RECURSIVE Gathered(_, _, _)
Gathered(c, p, k) ==
  IF k = 0 THEN <<>> ELSE Gathered(c, p, k - 1) \o result[<<c, p, k>>]

\* Mutant of ValidGames: only the first result of the gather is kept.
ValidGamesFirstOnly(c, p) == Gathered(c, p, 1)
\* valid_games (lines 371-374), all_games after lines 417-421
ValidGames(c, p) == Gathered(c, p, Len(LinksOnPage(c, p)))

\* Mutant of GatherDone: the await ends with the first task that returns.
GatherDoneFirstCompleted(cs) == cs \cap settled # {}
\* "await asyncio.gather(*tasks)" over the tasks of the calls cs resumes when
\* every one of them has returned.
GatherDone(cs) == cs \subseteq settled

\* Mutant of AllPagesYielded: the loop over as_completed ends after the
\* first page task it yields.
FirstPageYielded(c, q) == TRUE
\* The "for coro in asyncio.as_completed(page_tasks)" loop of category c is
\* exhausted: q holds the finished tasks not yet yielded.
AllPagesYielded(c, q) == q = <<>> /\ PageCallsOf(c, max_pages[c]) \subseteq settled

\* Mutant of GatherReturnExceptions: gather without return_exceptions.
GatherPropagates == FALSE
\* return_exceptions of the gather over the category crawlers (line 529)
GatherReturnExceptions == TRUE

\* An exception leaves parse_category_with_pagination of category c.  Without
\* return_exceptions it would leave parse_all_categories and reach the
\* "except Exception" branch of run().
CategoryRaises(c) ==
  /\ cpc' = [cpc EXCEPT ![c] = "raised"]
  /\ IF GatherReturnExceptions
     THEN UNCHANGED <<rpc, files>>
     ELSE /\ rpc' = "error"
          /\ files' = IF games_data # <<>>
                      THEN Append(files, [name |-> "error_repack_games_data.json",
                                          downloads |-> games_data])
                      ELSE files

\* Lines 424-442 and 464: the first page is processed with the records
\* games; the remaining pages are started, or the crawler returns.
FinishFirstPage(c, fs, games, mp) ==
  /\ all_games' = [all_games EXCEPT ![c] = games]
  /\ completed_pages' = [completed_pages EXCEPT ![c] = 1]
  /\ IF mp > 1
     THEN /\ fstate' = StartCalls(fs, PageCallsOf(c, mp))
          /\ cpc' = [cpc EXCEPT ![c] = "pages"]
     ELSE /\ fstate' = fs
          /\ cpc' = [cpc EXCEPT ![c] = "returned"]

\* Mutant of FirstPageFailed: the result of the first fetch is not tested.
FirstPageFailedNever(ret) == FALSE
\* What the crawler of c does when the fetch of its first page came back
\* empty (lines 387-389): TRUE when it gives up and returns [].
FirstPageFailed(ret) == ret # "html"

\* Lines 386-415: the fetch of the first listing page of c returns.
FirstPageReturns(c) ==
  \E out \in {"ok", "err"} :
    LET call == <<c, 1, 0>>
        ret == ReturnOf(out)
        fs == [fstate EXCEPT ![call] = ret]
        mp == MaxPagesOf(get_total_pages_from_pagination(c))
    IN  /\ cpc[c] = "first"
        /\ LastAttempt(call, out)
        /\ IF FirstPageFailed(ret)
           THEN /\ cpc' = [cpc EXCEPT ![c] = "returned"]
                /\ fstate' = fs
                /\ UNCHANGED <<max_pages, all_games, completed_pages, rpc, files>>
           ELSE IF HasDefect(ListUrl(c, 1), "poison")
           THEN /\ CategoryRaises(c)
                /\ fstate' = fs
                /\ UNCHANGED <<max_pages, all_games, completed_pages>>
           ELSE /\ max_pages' = [max_pages EXCEPT ![c] = mp]
                /\ UNCHANGED <<rpc, files>>
                /\ IF LinksOnPage(c, 1) # <<>>
                   THEN /\ fstate' = StartCalls(fs, LeafCallsOf(c, 1))
                        /\ cpc' = [cpc EXCEPT ![c] = "leaves1"]
                        /\ UNCHANGED <<all_games, completed_pages>>
                   ELSE FinishFirstPage(c, fs, <<>>, mp)
        /\ UNCHANGED <<ext, acquisitions, ank, site, max_concurrent, settled, result, doneq, games_data,
                       total_games_parsed>>

\* Lines 190-229: the fetch of a parse_game_info task returns.
LeafReturns(c, p, k) ==
  \E out \in {"ok", "err"} :
    LET call == <<c, p, k>>
        ret == ReturnOf(out)
        info == GameInfo(ret, LinksOnPage(c, p)[k])
    IN  /\ k >= 1
        /\ LastAttempt(call, out)
        /\ fstate' = [fstate EXCEPT ![call] = ret]
        /\ settled' = settled \cup {call}
        /\ result' = [result EXCEPT ![call] = info]
        /\ total_games_parsed' = total_games_parsed + Len(info)
        /\ UNCHANGED <<ext, acquisitions, ank, site, max_concurrent, cpc, max_pages, completed_pages,
                       all_games, doneq, rpc, games_data, files>>

\* Lines 415-442: the gather over the games of the first page completes.
FirstLeavesGathered(c) ==
  /\ rpc = "gather"
  /\ cpc[c] = "leaves1"
  /\ GatherDone(LeafCallsOf(c, 1))
  /\ FinishFirstPage(c, fstate, ValidGames(c, 1), max_pages[c])
  /\ UNCHANGED <<ext, acquisitions, ank, site, max_concurrent, semaphore, flog, settled, result,
                 max_pages, doneq, rpc, games_data, total_games_parsed, files>>

\* Lines 351-368 of parse_category_page_and_games: the fetch of listing page
\* p >= 2 returns.
PageReturns(c, p) ==
  \E out \in {"ok", "err"} :
    LET call == <<c, p, 0>>
        ret == ReturnOf(out)
        fs == [fstate EXCEPT ![call] = ret]
    IN  /\ p >= 2
        /\ LastAttempt(call, out)
        /\ IF is_404_page(ret, c, p) \/ LinksOnPage(c, p) = <<>>
           THEN /\ fstate' = fs
                /\ settled' = settled \cup {call}
                /\ doneq' = [doneq EXCEPT ![c] = Append(@, p)]
           ELSE /\ fstate' = StartCalls(fs, LeafCallsOf(c, p))
                /\ UNCHANGED <<settled, doneq>>
        /\ UNCHANGED <<ext, acquisitions, ank, site, max_concurrent, result, cpc, max_pages,
                       completed_pages, all_games, rpc, games_data,
                       total_games_parsed, files>>

\* Lines 368-377: the gather over the games of listing page p >= 2 completes
\* and the page task returns valid_games.
PageLeavesGathered(c, p) ==
  LET call == <<c, p, 0>>
  IN  /\ rpc = "gather"
      /\ p >= 2
      /\ fstate[call] = "html"
      /\ call \notin settled
      /\ GatherDone(LeafCallsOf(c, p))
      /\ settled' = settled \cup {call}
      /\ result' = [result EXCEPT ![call] = ValidGames(c, p)]
      /\ doneq' = [doneq EXCEPT ![c] = Append(@, p)]
      /\ UNCHANGED <<ext, acquisitions, ank, site, max_concurrent, semaphore, fstate, flog, cpc,
                     max_pages, completed_pages, all_games, rpc, games_data,
                     total_games_parsed, files>>

\* Lines 445-464: as_completed yields the next finished page task; after the
\* last one the crawler returns all_games.
PageConsumed(c) ==
  /\ rpc = "gather"
  /\ cpc[c] = "pages"
  /\ doneq[c] # <<>>
  /\ all_games' = [all_games EXCEPT ![c] = @ \o result[<<c, Head(doneq[c]), 0>>]]
  /\ completed_pages' = [completed_pages EXCEPT ![c] = @ + 1]
  /\ doneq' = [doneq EXCEPT ![c] = Tail(@)]
  /\ cpc' = [cpc EXCEPT ![c] =
               IF AllPagesYielded(c, Tail(doneq[c]))
               THEN "returned" ELSE "pages"]
  /\ UNCHANGED <<ext, acquisitions, ank, site, max_concurrent, semaphore, fstate, flog, settled, result,
                 max_pages, rpc, games_data, total_games_parsed, files>>


\* ------------------------------------------------------- orchestrator
\* Lines 523-529: one crawler per category; each starts by fetching its
\* first listing page.
ParseAllStart ==
  /\ rpc = "init"
  /\ rpc' = "gather"
  /\ cpc' = [c \in Cats |-> "first"]
  /\ fstate' = StartCalls(fstate, {<<c, 1, 0>> : c \in Cats})
  /\ UNCHANGED <<ext, acquisitions, ank, site, max_concurrent, semaphore, flog, settled, result,
                 max_pages, completed_pages, all_games, doneq, games_data,
                 total_games_parsed, files>>

\* The entry of results for category c: the list the crawler returned, or
\* an exception object (no list).
IsList(c) == cpc[c] = "returned"
ReturnValue(c) == IF fstate[<<c, 1, 0>>] = "html" THEN all_games[c] ELSE <<>>

\* Mutant of ExtendGamesData: the list is assigned instead of extended.
AssignGamesData(data, lst) == lst
\* self.games_data.extend(result) (line 534)
ExtendGamesData(data, lst) == data \o lst

\* Lines 532-537: the loop over results, in category order; data is
\* self.games_data before the loop.
RECURSIVE MergeResults(_, _)
MergeResults(data, n) ==
  IF n = 0 THEN data
  ELSE LET before == MergeResults(data, n - 1)
       IN  IF IsList(n) THEN ExtendGamesData(before, ReturnValue(n)) ELSE before

\* Lines 529-547: the gather over the categories completes.
Merge ==
  /\ rpc = "gather"
  /\ \A c \in Cats : cpc[c] \in {"returned", "raised"}
  /\ games_data' = MergeResults(games_data, NumCats)
  /\ rpc' = "merged"
  /\ UNCHANGED <<ext, acquisitions, ank, site, max_concurrent, semaphore, fstate, flog, settled, result,
                 cpc, max_pages, completed_pages, all_games, doneq,
                 total_games_parsed, files>>

\* Lines 549-559 and 565-566: save_to_json().
Save ==
  /\ rpc = "merged"
  /\ files' = Append(files, [name |-> "repackgames.json", downloads |-> games_data])
  /\ rpc' = "saved"
  /\ UNCHANGED <<ext, acquisitions, ank, site, max_concurrent, semaphore, fstate, flog, settled, result,
                 cpc, max_pages, completed_pages, all_games, doneq, games_data,
                 total_games_parsed>>

\* Lines 567-571: the "except KeyboardInterrupt" branch of run(), taken
\* while parse_all_categories or save_to_json is in progress.  The crawler
\* tasks are abandoned.
Interrupt ==
  /\ rpc \in {"gather", "merged"}
  /\ rpc' = "interrupted"
  /\ files' = IF games_data # <<>>
              THEN Append(files, [name |-> "partial_repack_games_data.json",
                                  downloads |-> games_data])
              ELSE files
  /\ UNCHANGED <<ext, acquisitions, ank, site, max_concurrent, semaphore, fstate, flog, settled, result,
                 cpc, max_pages, completed_pages, all_games, doneq, games_data,
                 total_games_parsed>>

\* ------------------------------------------------------------ AnkerGames
\* ankergames.py, main(): ank.links is the list get_game_links returned,
\* ank.kind what each game page does to scrape_game ("link": a download link
\* is found, "nolink": extract_download_link returns None, "throws": page.goto
\* raises), ank.limit the --limit option (NoLimit: None).
NoLimit == 0 - 1
AnkUrls == 1..AnkNumUrls

Min(a, b) == IF a < b THEN a ELSE b

\* links[:limit]
Truncate(links, limit) ==
  IF limit = NoLimit THEN links ELSE SubSeq(links, 1, Min(limit, Len(links)))

\* The DownloadItem scrape_game builds for url (lines 284-300).
ScrapedItem(url, kind) ==
  [uris |-> IF kind = "link" THEN << <<url, 1>> >> ELSE <<>>,
   repackLinkSource |-> url]

\* "if item:" of main(): a DownloadItem defines neither __bool__ nor __len__,
\* so every instance is true.
ItemTruthy(item) == TRUE

\* Mutant of PagesAfterClose: the page is closed on the normal path only.
PagesAfterCloseOnSuccess(open, pending) == IF pending = "item" THEN open - 1 ELSE open
\* "finally: await page.close()" of scrape_game: open pages after it, when
\* the try block ended with pending (an item to return or an exception).
PagesAfterClose(open, pending) == open - 1

AnkIdle ==
  [pc |-> "off", links |-> <<>>, kind |-> [u \in AnkUrls |-> "link"],
   limit |-> NoLimit, idx |-> 1, open |-> 0, attempts |-> <<>>,
   pending |-> "none", results |-> <<>>, file |-> <<>>]

\* Line 275: scrape_game opens a page for the next url of the list.
AnkNewPage ==
  /\ ank.pc = "loop"
  /\ ank.idx <= Len(ank.links)
  /\ ank' = [ank EXCEPT !.pc = "page", !.open = @ + 1,
                        !.attempts = Append(@, ank.links[ank.idx])]
  /\ UNCHANGED <<ext, acquisitions, site, max_concurrent, semaphore, fstate, flog, settled, result,
                 cpc, max_pages, completed_pages, all_games, doneq, rpc,
                 games_data, total_games_parsed, files>>

\* Lines 277-300: goto and the extractions; an item is built or goto raises.
AnkExtract ==
  /\ ank.pc = "page"
  /\ ank' = [ank EXCEPT !.pc = "closing",
                        !.pending = IF ank.kind[ank.links[ank.idx]] = "throws"
                                    THEN "exception" ELSE "item"]
  /\ UNCHANGED <<ext, acquisitions, site, max_concurrent, semaphore, fstate, flog, settled, result,
                 cpc, max_pages, completed_pages, all_games, doneq, rpc,
                 games_data, total_games_parsed, files>>

\* Lines 301-302 and 326-330: page.close() in the finally, then main()
\* appends the item or reports the exception, and goes to the next url.
AnkClose ==
  LET url == ank.links[ank.idx]
      item == ScrapedItem(url, ank.kind[url])
  IN  /\ ank.pc = "closing"
      /\ ank' = [ank EXCEPT !.pc = "loop",
                            !.open = PagesAfterClose(@, ank.pending),
                            !.idx = @ + 1,
                            !.pending = "none",
                            !.results = IF ank.pending = "item" /\ ItemTruthy(item)
                                        THEN Append(@, item) ELSE @]
      /\ UNCHANGED <<ext, acquisitions, site, max_concurrent, semaphore, fstate, flog, settled,
                     result, cpc, max_pages, completed_pages, all_games, doneq,
                     rpc, games_data, total_games_parsed, files>>

\* Lines 332-351: the loop is over and the results are written.
AnkWrite ==
  /\ ank.pc = "loop"
  /\ ank.idx > Len(ank.links)
  /\ ank' = [ank EXCEPT !.pc = "done",
                        !.file = << [name |-> "AnkerGames", downloads |-> ank.results] >>]
  /\ UNCHANGED <<ext, acquisitions, site, max_concurrent, semaphore, fstate, flog, settled, result,
                 cpc, max_pages, completed_pages, all_games, doneq, rpc,
                 games_data, total_games_parsed, files>>

\* ------------------------------------------- extract_download_links
\* One call of extract_download_links on its own: ext.soup is the list of
\* the page's download anchors in document order.
Hrefs == {<<>>} \cup {<<h, 1>> : h \in 1..NumHrefs}
Buttons == [cls : {"gp", "enjoy"}, torrent : BOOLEAN, href : Hrefs]
Soups == UNION {[1..n -> Buttons] : n \in 0..MaxButtons}

ExtIdle == [pc |-> "off", soup |-> <<>>, download_links |-> <<>>]

\* Lines 231-274: the call runs and returns download_links.
ExtReturn ==
  /\ ext.pc = "call"
  /\ ext' = [ext EXCEPT !.pc = "done",
                        !.download_links = extract_download_links(ext.soup)]
  /\ UNCHANGED <<acquisitions, ank, site, max_concurrent, semaphore, fstate, flog,
                 settled, result, cpc, max_pages, completed_pages, all_games,
                 doneq, rpc, games_data, total_games_parsed, files>>

\* ------------------------------------------------------ specification
\* The state after RepackGamesParser(max_concurrent) for the given site.
InitFor(s, m) ==
  /\ site = s
  /\ max_concurrent = m
  /\ semaphore = InitialSlots(m)
  /\ fstate = [x \in SiteCalls(s) |-> "idle"]
  /\ flog = [x \in SiteCalls(s) |-> <<>>]
  /\ settled = {}
  /\ result = [x \in SiteCalls(s) |-> <<>>]
  /\ cpc = [c \in Cats |-> "new"]
  /\ max_pages = [c \in Cats |-> 0]
  /\ completed_pages = [c \in Cats |-> 0]
  /\ all_games = [c \in Cats |-> <<>>]
  /\ doneq = [c \in Cats |-> <<>>]
  /\ rpc = "init"
  /\ games_data = <<>>
  /\ total_games_parsed = 0
  /\ files = <<>>
  /\ acquisitions = 0

Init == ext = ExtIdle /\ ank = AnkIdle /\ \E s \in Sites, m \in 1..MaxCeiling : InitFor(s, m)

Crawl ==
  \/ \E call \in Calls : Admit(call)
  \/ \E call \in Calls : Retry(call)
  \/ \E c \in Cats : FirstPageReturns(c)
  \/ \E c \in Cats : FirstLeavesGathered(c)
  \/ \E c \in Cats, p \in Pages : PageReturns(c, p)
  \/ \E c \in Cats, p \in Pages, k \in 1..MaxLinks : LeafReturns(c, p, k)
  \/ \E c \in Cats, p \in Pages : PageLeavesGathered(c, p)
  \/ \E c \in Cats : PageConsumed(c)

Next ==
  \/ ParseAllStart
  \/ Crawl
  \/ Merge
  \/ Save
  \/ Interrupt

Spec == Init /\ [][Next]_vars


\* Pagination without a count marker: category 1 has no "Page X of N" marker,
\* its listing pages 1 to 4 are live and every page from 5 on is the 404
\* page; the first page of the other categories cannot be fetched.
ProbeSite ==
  [marked |-> [c \in Cats |-> c # 1],
   live |-> [c \in Cats |-> IF c = 1 THEN 4 ELSE 1],
   layout |-> "shared",
   defects |-> {[url |-> ListUrl(c, 1), kind |-> "down"] : c \in Cats \ {1}}]

InitProbe == ext = ExtIdle /\ ank = AnkIdle /\ \E m \in 1..MaxCeiling : InitFor(ProbeSite, m)

SpecProbe == InitProbe /\ [][Next]_vars


\* Lists of distinct urls (get_game_links keeps the first of equal hrefs).
RECURSIVE DistinctSeqs(_, _)
DistinctSeqs(S, n) ==
  IF n = 0 THEN {<<>>}
  ELSE LET shorter == DistinctSeqs(S, n - 1)
       IN  shorter \cup {Append(q, x) : q \in shorter, x \in S}

IsDistinct(q) == \A i, j \in 1..Len(q) : i # j => q[i] # q[j]

AnkInit ==
  /\ ext = ExtIdle
  /\ \E links \in {q \in DistinctSeqs(AnkUrls, AnkNumUrls) : IsDistinct(q)},
        kind \in [AnkUrls -> {"link", "nolink", "throws"}],
        limit \in {NoLimit} \cup (0..AnkNumUrls) :
       ank = [AnkIdle EXCEPT !.pc = "loop", !.kind = kind, !.limit = limit,
                             !.links = Truncate(links, limit)]
  /\ InitFor([marked |-> [c \in Cats |-> TRUE], live |-> [c \in Cats |-> 1],
              layout |-> "shared", defects |-> {}], 1)

AnkNext ==
  \/ AnkNewPage
  \/ AnkExtract
  \/ AnkClose
  \/ AnkWrite

AnkSpec == AnkInit /\ [][AnkNext]_vars


\* A call of extract_download_links for every soup of up to MaxButtons
\* download anchors.
NoSite ==
  [marked |-> [c \in Cats |-> TRUE], live |-> [c \in Cats |-> 1],
   layout |-> "shared", defects |-> {}]

ExtInit ==
  /\ \E soup \in Soups : ext = [ExtIdle EXCEPT !.pc = "call", !.soup = soup]
  /\ ank = AnkIdle
  /\ InitFor(NoSite, 1)

ExtNext == ExtReturn

ExtSpec == ExtInit /\ [][ExtNext]_vars


\* The end-to-end site: every category carries the marker "Page 1 of
\* MaxMarker", every listing page links MaxLinks game pages of its own, every
\* game page has a download link and every fetch succeeds.
E2ESite ==
  [marked |-> [c \in Cats |-> TRUE], live |-> [c \in Cats |-> MaxMarker],
   layout |-> "distinct", defects |-> {}]

E2EInit ==
  ext = ExtIdle /\ ank = AnkIdle /\ \E m \in 1..(MaxCeiling + 1) : InitFor(E2ESite, m)

E2ENext ==
  \/ ParseAllStart
  \/ \E call \in Calls : Admit(call)
  \/ \E c \in Cats : FirstPageReturns(c)
  \/ \E c \in Cats : FirstLeavesGathered(c)
  \/ \E c \in Cats, p \in Pages : PageReturns(c, p)
  \/ \E c \in Cats, p \in Pages, k \in 1..MaxLinks : LeafReturns(c, p, k)
  \/ \E c \in Cats, p \in Pages : PageLeavesGathered(c, p)
  \/ \E c \in Cats : PageConsumed(c)
  \/ Merge
  \/ Save

E2ESpec == E2EInit /\ [][E2ENext]_vars


\* Fair runs without operator interrupt: the event loop runs every ready task
\* and every transport attempt returns or times out (ClientTimeout(total=12)).
FairNext ==
  \/ ParseAllStart
  \/ Crawl
  \/ Merge
  \/ Save

FairSpec == Init /\ [][FairNext]_vars /\ WF_vars(FairNext)

\* ================================================================ claims
Range(q) == {q[i] : i \in 1..Len(q)}
Returned(call) == fstate[call] \in {"html", "none"}

\* C1: the number of get_page_content calls that hold a slot of the shared
\* semaphore never exceeds max_concurrent, counted over all categories,
\* listing pages and game pages together.
C1_BoundedConcurrency == Cardinality(Holding) <= max_concurrent

\* C1 witness: the ceiling is saturated by calls of two different categories
\* while further calls wait.
C1_Witness ==
  /\ Cardinality(Holding) = max_concurrent
  /\ \E x, y \in Holding : x[1] # y[1]
  /\ Waiting # {}

\* C6: a get_page_content call makes at most 3 attempts, none after a
\* successful one; it returns None exactly after 3 failed attempts, returns
\* the page after a successful attempt, and never raises.
C6_RetryContract ==
  \A call \in Calls :
    /\ Len(flog[call]) <= 3
    /\ \A i \in 1..(Len(flog[call]) - 1) : flog[call][i] = "err"
    /\ fstate[call] = "hold" => ~InSeq("ok", flog[call])
    /\ fstate[call] = "none" => flog[call] = <<"err", "err", "err">>
    /\ fstate[call] = "html" =>
         Len(flog[call]) >= 1 /\ flog[call][Len(flog[call])] = "ok"
    /\ fstate[call] \in {"idle", "wait", "hold", "html", "none"}

\* C6 witness: one call returned None after three failures and another one
\* returned the page at its second attempt.
C6_Witness ==
  /\ \E x \in Calls : fstate[x] = "none" /\ Len(flog[x]) = 3
  /\ \E y \in Calls : fstate[y] = "html" /\ flog[y] = <<"err", "ok">>

C2_UniqueSources ==
  rpc \in {"merged", "saved"} =>
    \A i, j \in 1..Len(games_data) :
      i # j => games_data[i].repackLinkSource # games_data[j].repackLinkSource

\* C3: when the first page of category 1 has no page-count marker and its
\* page 5 is the 404 page, no listing page above 5 is ever fetched, and at
\* the end of the crawl pages 1 to 5 have been fetched.
C3_StopsAtDeadPage ==
  (~site.marked[1] /\ site.live[1] = 4) =>
    /\ \A p \in Pages : p > 5 => fstate[<<1, p, 0>>] = "idle"
    /\ cpc[1] = "returned" => \A p \in 1..5 : Returned(<<1, p, 0>>)

\* RepackGames: no record of games_data or of a written file has empty uris.
RepackNoEmptyUris ==
  /\ \A i \in 1..Len(games_data) : games_data[i].uris # <<>>
  /\ \A f \in Range(files) : \A r \in Range(f.downloads) : r.uris # <<>>

\* AnkerGames: no record of results or of the written file has empty uris.
AnkerNoEmptyUris ==
  /\ \A i \in 1..Len(ank.results) : ank.results[i].uris # <<>>
  /\ \A f \in Range(ank.file) : \A r \in Range(f.downloads) : r.uris # <<>>

\* C4: no record with an empty download-URI sequence is in the record list
\* written to JSON, in RepackGames (games_data) and in AnkerGames (results).
C4_NoEmptyUris == RepackNoEmptyUris /\ AnkerNoEmptyUris

\* C5: after an operator interrupt every record a parse_game_info task has
\* already extracted is in games_data and in the partial file written by
\* the interrupt path of run().
C5_InterruptKeepsRecords ==
  rpc = "interrupted" =>
    \A call \in settled :
      (call[3] >= 1 /\ result[call] # <<>>) =>
        /\ InSeq(result[call][1], games_data)
        /\ files # <<>>
        /\ InSeq(result[call][1], files[Len(files)].downloads)


\* The valid records of category c according to the site: one for every game
\* link of its live listing pages whose game page carries a download link.
SiteRecords(c) ==
  UNION {Range(GameInfo("html", LinksOnPage(x[1], x[2])[x[3]])) :
           x \in {y \in Calls : y[1] = c /\ y[2] <= site.live[c] /\ y[3] >= 1
                                 /\ y[3] <= Len(LinksOnPage(y[1], y[2]))}}

\* Every fetch category c made succeeded at its first attempt, and its
\* crawler returned.
AllFetchesSucceed(c) ==
  /\ cpc[c] = "returned"
  /\ \A x \in Calls : x[1] = c => fstate[x] # "none" /\ ~InSeq("err", flog[x])

\* The first listing page of category c failed on every attempt.
FirstPageExhausted(c) == fstate[<<c, 1, 0>>] = "none"

\* C9: with a category a whose fetches all succeed and a category b whose
\* first listing page fails on every attempt, the run ends normally, the
\* final games_data contains every valid record of a, and b produced no
\* record and fetched nothing but its first page.
C9_FailureIsolation ==
  \A a, b \in Cats :
    (AllFetchesSucceed(a) /\ FirstPageExhausted(b)) =>
      /\ rpc # "error"
      /\ cpc[b] = "returned" /\ ReturnValue(b) = <<>>
      /\ \A x \in Calls : (x[1] = b /\ x # <<b, 1, 0>>) =>
           fstate[x] = "idle" /\ result[x] = <<>>
      /\ rpc \in {"merged", "saved"} => SiteRecords(a) \subseteq Range(games_data)
      /\ rpc = "saved" => SiteRecords(a) \subseteq Range(files[1].downloads)

\* C9 witness: the run ended with category 2 failed at its first page and
\* category 1 completely crawled, with its records in the result.
C9_Witness ==
  /\ rpc = "saved"
  /\ AllFetchesSucceed(1)
  /\ FirstPageExhausted(2)
  /\ site.live[1] = MaxMarker
  /\ Len(games_data) >= 2

\* C10: when a category crawler raises, parse_all_categories does not raise:
\* the run goes on, and once the categories are merged every record produced
\* by a game task of a category that returned is in games_data and in the
\* saved file.
C10_FaultIsolation ==
  (\E c \in Cats : cpc[c] = "raised") =>
    /\ rpc # "error"
    /\ rpc \in {"merged", "saved"} =>
         \A x \in settled :
           (x[3] >= 1 /\ cpc[x[1]] = "returned" /\ result[x] # <<>>) =>
             InSeq(result[x][1], games_data)
    /\ rpc = "saved" => files = << [name |-> "repackgames.json",
                                    downloads |-> games_data] >>

\* C10 witness: a category raised, another returned records, and the run
\* ended with those records saved.
C10_Witness ==
  /\ rpc = "saved"
  /\ \E c \in Cats : cpc[c] = "raised"
  /\ \E c \in Cats : cpc[c] = "returned" /\ all_games[c] # <<>>
  /\ games_data # <<>>


\* The calls made by the tasks that await the task of call x: its page task
\* and its category crawler.
AncestorCalls(x) == {<<x[1], x[2], 0>>, <<x[1], 1, 0>>} \ {x}

NoHoldAndWait ==
  \A x \in Waiting : \A y \in AncestorCalls(x) : fstate[y] # "hold"

\* A call only moves forward: from waiting to holding a slot, from holding
\* to returned, and a returned call stays returned.
CallsAdvance ==
  \A x \in Calls :
    /\ fstate[x] = "wait" => fstate'[x] \in {"wait", "hold"}
    /\ fstate[x] = "hold" => fstate'[x] = "hold" \/ Returned(x)'
    /\ Returned(x) => fstate'[x] = fstate[x]

\* C8: in fair runs in which every transport attempt returns, no task waits
\* for a slot while a task that awaits it holds one, and parse_all_categories
\* and run() eventually finish with no call left waiting or holding a slot,
\* for every ceiling from 1 on; as calls only move forward, every call that
\* waits for a slot is eventually admitted and returns.
C8_Progress ==
  /\ []NoHoldAndWait
  /\ [][CallsAdvance]_vars
  /\ <>[](rpc = "saved" /\ Waiting = {} /\ Holding = {})

\* C8 witness: with a ceiling of 1 the only slot is taken and calls of both
\* categories wait for it.
C8_Witness ==
  /\ max_concurrent = 1
  /\ semaphore = 0
  /\ \E x, y \in Waiting : x[1] # y[1]


\* Every URL of the site fails on every transport attempt.
AllTransportFails ==
  /\ \A c \in Cats, p \in Pages : Outcomes(ListUrl(c, p)) = {"err"}
  /\ \A u \in Leaves : Outcomes(LeafUrl(u)) = {"err"}

\* C11: when the transport fails on every attempt for every URL, a category
\* crawler never raises, fetches nothing but its first listing page (no other
\* listing page, no game page), makes one get_page_content call for it, and
\* returns after exactly 3 failed attempts with zero records.
C11_RetryExhaustion ==
  AllTransportFails =>
    /\ rpc # "error"
    /\ acquisitions <= NumCats
    /\ rpc \in {"merged", "saved"} => games_data = <<>>
    /\ \A c \in Cats :
         /\ cpc[c] \in {"new", "first", "returned"}
         /\ \A x \in Calls : (x[1] = c /\ x # <<c, 1, 0>>) =>
              fstate[x] = "idle" /\ flog[x] = <<>>
         /\ cpc[c] = "returned" =>
              /\ fstate[<<c, 1, 0>>] = "none"
              /\ flog[<<c, 1, 0>>] = <<"err", "err", "err">>
              /\ ReturnValue(c) = <<>>
              /\ all_games[c] = <<>>

\* C11 witness: on the site where nothing can be fetched every crawler has
\* returned after its one call and the run has been saved.
C11_Witness ==
  /\ AllTransportFails
  /\ rpc = "saved"
  /\ acquisitions = NumCats
  /\ \A c \in Cats : cpc[c] = "returned" /\ Len(flog[<<c, 1, 0>>]) = 3

\* The listing pages of category c whose fetch returned the page.
PagesFetched(c) == {p \in 1..max_pages[c] : fstate[<<c, p, 0>>] = "html"}

\* C12: when the crawler of a category returns, completed_pages is the number
\* of listing pages that were fetched successfully (a page whose fetch failed
\* on every attempt is not counted), and the records of the game pages of
\* the other listing pages are in the returned list.
C12_CompletedCountsSucceeded ==
  \A c \in Cats :
    (cpc[c] = "returned" /\ fstate[<<c, 1, 0>>] = "html") =>
      /\ completed_pages[c] = Cardinality(PagesFetched(c))
      /\ \A x \in settled :
           (x[1] = c /\ x[3] >= 1 /\ result[x] # <<>>) =>
             InSeq(result[x][1], ReturnValue(c))


\* The game pages of the end-to-end site: one per link of every listing page.
E2ELeaves == 1..(NumCats * MaxMarker * MaxLinks)

\* C13: on the end-to-end site (NumCats = 2 categories with the marker "Page
\* 1 of 2", 2 game links of its own on every listing page, every fetch
\* succeeding) the merged result has exactly NumCats * MaxMarker * MaxLinks =
\* 8 records, one per game page, no source twice, no empty uris, and the same
\* records are saved; every one of the 4 listing pages and 8 game pages is
\* fetched by one call with one attempt, in every interleaving.
C13_EndToEnd ==
  /\ \A x \in Calls : Len(flog[x]) <= 1
  /\ rpc \in {"merged", "saved"} =>
       /\ Len(games_data) = NumCats * MaxMarker * MaxLinks
       /\ {games_data[i].repackLinkSource : i \in 1..Len(games_data)} = E2ELeaves
       /\ \A i, j \in 1..Len(games_data) :
            i # j => games_data[i].repackLinkSource # games_data[j].repackLinkSource
       /\ \A i \in 1..Len(games_data) : games_data[i].uris # <<>>
       /\ \A x \in Calls : flog[x] = <<"ok">>
       /\ acquisitions = Cardinality(Calls)
  /\ rpc = "saved" =>
       files = << [name |-> "repackgames.json", downloads |-> games_data] >>

\* C13 witness: the run on the end-to-end site is saved with all its records,
\* after fetches of the two categories shared the slots.
C13_Witness ==
  /\ site = E2ESite
  /\ rpc = "saved"
  /\ Len(games_data) = NumCats * MaxMarker * MaxLinks
  /\ Cardinality(Calls) = NumCats * MaxMarker * (MaxLinks + 1)
  /\ max_concurrent > 1


\* The calls made on behalf of the crawler of category c.
CallsOfCat(c) == {x \in Calls : x[1] = c}

\* C14: when parse_category_with_pagination has returned, none of the fetches
\* of its category waits for a slot or holds one, every page task and every
\* game task it started has returned, no finished page task is left
\* unconsumed, and every record a game task of the category produced is in
\* the returned list.
C14_ReturnsAfterAllSettled ==
  \A c \in Cats :
    cpc[c] = "returned" =>
      /\ \A x \in CallsOfCat(c) : fstate[x] \notin {"wait", "hold"}
      /\ \A x \in CallsOfCat(c) : (x[3] >= 1 /\ fstate[x] # "idle") => x \in settled
      /\ \A p \in 2..max_pages[c] : <<c, p, 0>> \in settled
      /\ doneq[c] = <<>>
      /\ \A x \in CallsOfCat(c) :
           (x[3] >= 1 /\ result[x] # <<>>) => InSeq(result[x][1], ReturnValue(c))

\* C14 witness: the crawler of the category without marker has returned after
\* all its page tasks, with the records of several listing pages.
C14_Witness ==
  /\ cpc[1] = "returned"
  /\ max_pages[1] = FallbackMaxPages
  /\ completed_pages[1] = FallbackMaxPages
  /\ Len(all_games[1]) > 2 * MaxLinks


\* C15: for a listing page p >= 2, the fetches of its game tasks are started
\* exactly when the fetch of that page has returned the page, whatever the
\* state of the other listing pages of the category: a game task is started
\* if and only if its own listing page has been fetched.
C15_LeavesFanOutOnCompletion ==
  \A c \in Cats, p \in Pages :
    p >= 2 =>
      \A k \in 1..Len(LinksOnPage(c, p)) :
        fstate[<<c, p, k>>] # "idle" <=> fstate[<<c, p, 0>>] = "html"

\* C15 witness: one game page of listing page p has been fetched and another
\* one is being fetched while a listing page q < p of the same category
\* still waits for its slot: completion order, not page order.
C15_Witness ==
  \E c \in Cats, p \in Pages, q \in Pages :
    /\ 2 <= q /\ q < p
    /\ fstate[<<c, q, 0>>] = "wait"
    /\ \E k \in 1..Len(LinksOnPage(c, p)) : fstate[<<c, p, k>>] = "hold"
    /\ \E k \in 1..Len(LinksOnPage(c, p)) : <<c, p, k>> \in settled


\* The hrefs of the page's download anchors, in document order.
PageHrefs(soup) == [i \in 1..Len(soup) |-> soup[i].href]

\* a can be obtained from b by deleting elements.
RECURSIVE IsSubseq(_, _)
IsSubseq(a, b) ==
  IF a = <<>> THEN TRUE
  ELSE IF b = <<>> THEN FALSE
  ELSE IF Head(a) = Head(b) THEN IsSubseq(Tail(a), Tail(b))
  ELSE IsSubseq(a, Tail(b))

\* C16: the list extract_download_links returns holds no URI twice and lists
\* its URIs in the order their anchors appear on the page, also when anchors
\* of class gp-download-buttons and of class enjoy-css are interleaved.
C16_PageOrderNoDuplicates ==
  ext.pc = "done" =>
    /\ IsDistinct(ext.download_links)
    /\ IsSubseq(ext.download_links, PageHrefs(ext.soup))

\* The list the loop of extract_download_links iterates over.
DownloadButtons(soup) == SelectSeq(soup, IsGp) \o SelectSeq(soup, IsEnjoy)

\* Button i of bs is the first of a run of consecutive TORRENT buttons.
FirstOfTorrentRun(bs, i) == bs[i].torrent /\ (i = 1 \/ ~bs[i - 1].torrent)

\* The hrefs of the buttons from i on that are not the first of a run.
RECURSIVE KeptHrefs(_, _)
KeptHrefs(bs, i) ==
  IF i > Len(bs) THEN <<>>
  ELSE (IF FirstOfTorrentRun(bs, i) THEN <<>> ELSE <<bs[i].href>>)
       \o KeptHrefs(bs, i + 1)

\* Every anchor has an href and no two anchors have the same.
HrefsAllDifferent(soup) ==
  /\ \A i \in 1..Len(soup) : soup[i].href # <<>>
  /\ IsDistinct(PageHrefs(soup))

\* C17: among consecutive download buttons in a TORRENT context only the
\* first is skipped, whatever the length of the run, and a button outside a
\* TORRENT context is never skipped: when all hrefs are present and
\* different, the result is the hrefs of all buttons but the first of every
\* run, in the order of the loop.
C17_OnlyFirstTorrentSkipped ==
  (ext.pc = "done" /\ HrefsAllDifferent(ext.soup)) =>
    ext.download_links = KeptHrefs(DownloadButtons(ext.soup), 1)


\* The calls that have entered "async with self.semaphore".
Admitted == {x \in Calls : fstate[x] \in {"hold", "html", "none"}}

\* Transport attempts made so far by the calls of S.
RECURSIVE AttemptsOf(_)
AttemptsOf(S) ==
  IF S = {} THEN 0
  ELSE LET x == CHOOSE y \in S : TRUE
       IN  Len(flog[x]) + AttemptsOf(S \ {x})

\* A call that holds a slot, between two attempts or during one, occupies
\* one slot, and the semaphore was entered once per call.
OneSlotPerCall ==
  /\ acquisitions = Cardinality(Admitted)
  /\ max_concurrent - semaphore = Cardinality(Holding)
  /\ \A x \in Calls : (fstate[x] = "hold" /\ Len(flog[x]) >= 1) => semaphore < max_concurrent

\* A failed attempt that is followed by another one leaves the semaphore and
\* the number of acquisitions as they are.
RetryKeepsSlot ==
  \A x \in Calls :
    (fstate[x] = "hold" /\ fstate'[x] = "hold" /\ Len(flog'[x]) > Len(flog[x])) =>
      semaphore' = semaphore /\ acquisitions' = acquisitions

\* C18: a get_page_content call takes its slot once, before its first
\* attempt, and keeps it over its whole retry sequence: the slot stays
\* occupied between the attempts, and the number of slot acquisitions of a
\* run is the number of calls admitted, not the number of attempts.
C18_SlotHeldAcrossRetries == []OneSlotPerCall /\ [][RetryKeepsSlot]_vars

\* C18 witness: a call is in its backoff after two failed attempts and holds
\* the last free slot while other calls wait; more attempts than acquisitions
\* have been made.
C18_Witness ==
  /\ \E x \in Holding : Len(flog[x]) = 2
  /\ semaphore = 0
  /\ Waiting # {}
  /\ AttemptsOf(Calls) > acquisitions


\* C19: within a category, the fetch of a listing page p >= 2 is issued only
\* after every game task of the first listing page has returned.
C19_PagesAfterFirstLeaves ==
  \A c \in Cats, p \in Pages :
    (p >= 2 /\ fstate[<<c, p, 0>>] # "idle") =>
      \A k \in 1..Len(LinksOnPage(c, 1)) :
        <<c, 1, k>> \in settled /\ Returned(<<c, 1, k>>)

\* C19 witness: the remaining pages of a category have been started after
\* its first-page game tasks returned, one of them after a retry, while
\* another category is still fetching the game pages of its first page.
C19_Witness ==
  \E c, d \in Cats :
    /\ c # d
    /\ fstate[<<c, 2, 0>>] = "wait"
    /\ \E k \in 1..Len(LinksOnPage(c, 1)) : Len(flog[<<c, 1, k>>]) >= 2
    /\ cpc[d] = "leaves1"
    /\ \E k \in 1..Len(LinksOnPage(d, 1)) : <<d, 1, k>> \notin settled


\* scrape_game returns an item for url u (page.goto does not raise).
AnkScraped(u) == ank.kind[u] # "throws"

\* The urls whose scrape_game call is over.
AnkFinished == SubSeq(ank.links, 1, ank.idx - 1)

AnkSequential ==
  /\ ank.open \in {0, 1}
  /\ ank.pc \in {"loop", "done"} => ank.open = 0
  /\ ank.attempts = SubSeq(ank.links, 1, Len(ank.attempts))
  /\ Len(ank.attempts) = IF ank.pc \in {"page", "closing"} THEN ank.idx ELSE ank.idx - 1
  /\ ank.pc = "done" => ank.attempts = ank.links
  /\ [i \in 1..Len(ank.results) |-> ank.results[i].repackLinkSource]
       = SelectSeq(AnkFinished, AnkScraped)

\* A scrape_game call that ends by an exception leaves results as it was and
\* the loop goes to the next url; results only grows at its end.
AnkExceptionSkips ==
  /\ ank.pending = "exception" =>
       ank'.results = ank.results /\ ank'.idx = ank.idx + 1 /\ ank'.pc = "loop"
  /\ Len(ank'.results) >= Len(ank.results)
  /\ SubSeq(ank'.results, 1, Len(ank.results)) = ank.results

\* C20: AnkerGames scrapes the urls of the truncated list one at a time in
\* list order: at most one game page is open, the page is closed when
\* scrape_game is left, by return or by exception, an exception adds no
\* record and changes none, the loop goes on, and at the end every url of
\* the list has been attempted exactly once.
C20_SequentialScrape == []AnkSequential /\ [][AnkExceptionSkips]_vars

\* C20 witness: a list of AnkNumUrls urls whose second page raised is done:
\* all urls were attempted and the other two produced a record.
C20_Witness ==
  /\ ank.pc = "done"
  /\ Len(ank.links) = AnkNumUrls
  /\ ank.kind[ank.links[2]] = "throws"
  /\ Len(ank.results) = AnkNumUrls - 1
  /\ ank.open = 0

====
